---------------------------- MODULE Spec2Model ----------------------------
(***************************************************************************)
(* Model of the Stripe reconciliation engine of the Nodewood CLI           *)
(* (src/src/lib/stripe.js and the StripeCommand of src/unnamed/part_017).  *)
(*                                                                         *)
(* JSON values are modelled by their canonical serialisation, a string:    *)
(* "null" is null, "true"/"false" the booleans, "{}" an empty mapping, any *)
(* other string a JSON string or number.  An object is a function from its *)
(* keys to values; a key that is absent reads as UNDEF, as in JavaScript.  *)
(* lodash's isEqual (deep structural equality) is then equality of the     *)
(* serialisations.                                                         *)
(***************************************************************************)
EXTENDS Integers, Sequences, FiniteSets, TLC

UNDEF == "undefined"
NULL  == "null"
JTRUE == "true"
JFALSE == "false"

\* lodash get(obj, key): obj[key], undefined when the key is absent.
Get(obj, key) == IF key \in DOMAIN obj THEN obj[key] ELSE UNDEF

\* lodash get(obj, key, dflt): the default replaces undefined only.
GetOr(obj, key, dflt) == IF Get(obj, key) = UNDEF THEN dflt ELSE obj[key]

\* JavaScript truthiness of a scalar value (! v is Falsy(v)).
Falsy(v) == v \in {UNDEF, NULL, JFALSE, "", "0"}

\* lodash omit(obj, key).
Omit(obj, key) == [k \in DOMAIN obj \ {key} |-> obj[k]]

\* Object spread { ...a, ...b }: keys of b override keys of a.
Spread(a, b) == [k \in DOMAIN a \cup DOMAIN b |-> IF k \in DOMAIN b THEN b[k] ELSE a[k]]

\* lodash last(array): undefined for an empty array.
Last(s) == IF Len(s) = 0 THEN UNDEF ELSE s[Len(s)]

\* Array.prototype.map.
RECURSIVE MapSeq(_, _)
MapSeq(F(_), s) == IF s = <<>> THEN <<>> ELSE <<F(Head(s))>> \o MapSeq(F, Tail(s))

\* lodash flatMap / Array.prototype.flatMap.
RECURSIVE FlatMap(_, _)
FlatMap(F(_), s) == IF s = <<>> THEN <<>> ELSE F(Head(s)) \o FlatMap(F, Tail(s))

\* Sum of F over the elements of a sequence (Array.prototype.reduce with +).
RECURSIVE SumSeq(_, _)
SumSeq(F(_), s) == IF s = <<>> THEN 0 ELSE F(Head(s)) + SumSeq(F, Tail(s))

Range(s) == {s[i] : i \in DOMAIN s}

\* All sequences over S of length at most n.
SeqUpTo(S, n) == UNION {[1..m -> S] : m \in 0..n}

(***************************************************************************)
(* ALLOWED_UPDATE_KEYS (stripe.js 9-33), keyed by entry name.              *)
(***************************************************************************)
ALLOWED_UPDATE_KEYS ==
  [product |-> {"active", "metadata", "name", "description"},
   price   |-> {"active", "metadata", "nickname", "description"},
   tax     |-> {"active", "metadata", "display_name", "description", "jurisdiction"},
   coupon  |-> {"name", "metadata"}]

\* Object.keys(entry) enumerates keys in insertion order; the model lists the
\* keys of an entity in this one canonical order.
KeyOrder ==
  <<"id", "product", "name", "nickname", "display_name", "description", "active",
    "inclusive", "percentage", "unit_amount", "currency", "interval",
    "interval_count", "duration", "metadata", "amount_off", "duration_in_months",
    "percent_off", "max_redemptions", "redeem_by", "jurisdiction", "unit_label",
    "prices">>

ObjectKeys(entry) == SelectSeq(KeyOrder, LAMBDA k: k \in DOMAIN entry)

(***************************************************************************)
(* The reconciler (stripe.js 295-438).                                     *)
(***************************************************************************)

\* getNewEntries: any entry without an id is new.
GetNewEntries(entries) == SelectSeq(entries, LAMBDA entry: Falsy(Get(entry, "id")))

\* getNewCoupons: new iff the id is not in the remote list.
GetNewCoupons(localCoupons, remoteCoupons) ==
  LET remoteIds == {Get(remoteCoupons[i], "id") : i \in DOMAIN remoteCoupons}
  IN  SelectSeq(localCoupons, LAMBDA coupon: Get(coupon, "id") \notin remoteIds)

\* updateableEntries: !! entry.id
UpdateableEntries(entry) == ~Falsy(Get(entry, "id"))

\* entries.filter((entry) => entry.id === id); the callers take last() of it,
\* which is undefined exactly when this list is empty.
MatchById(entries, id) == SelectSeq(entries, LAMBDA e: Get(e, "id") = id)

\* Keys of localEntry whose value differs from the remote entry's value.
Differences(localEntry, remoteEntry) ==
  SelectSeq(ObjectKeys(localEntry),
            LAMBDA key: Get(localEntry, key) # Get(remoteEntry, key))

\* Variant of IsUpdatedEntry: an entry without remote counterpart is updated.
IsUpdatedEntry_DriftUpdated(localEntry, remoteEntries, entryName) ==
  LET matches == MatchById(remoteEntries, Get(localEntry, "id"))
  IN  IF matches = <<>>
      THEN TRUE
      ELSE SelectSeq(Differences(localEntry, Last(matches)),
                     LAMBDA key: key \in ALLOWED_UPDATE_KEYS[entryName]) # <<>>

\* Variant of IsUpdatedEntry: any differing key marks the entry as updated.
IsUpdatedEntry_AnyKey(localEntry, remoteEntries, entryName) ==
  LET matches == MatchById(remoteEntries, Get(localEntry, "id"))
  IN  IF matches = <<>>
      THEN FALSE
      ELSE Differences(localEntry, Last(matches)) # <<>>

\* The filter predicate of getUpdatedEntries.
IsUpdatedEntry(localEntry, remoteEntries, entryName) ==
  LET matches == MatchById(remoteEntries, Get(localEntry, "id"))
      remoteEntry == Last(matches)
  IN  IF matches = <<>>
      THEN FALSE
      ELSE SelectSeq(Differences(localEntry, remoteEntry),
                     LAMBDA key: key \in ALLOWED_UPDATE_KEYS[entryName]) # <<>>

GetUpdatedEntries(localEntries, remoteEntries, entryName) ==
  SelectSeq(localEntries, LAMBDA l: IsUpdatedEntry(l, remoteEntries, entryName))

\* The console.log warnings getUpdatedEntries prints for one local entry.
EntryWarnings(localEntry, remoteEntries, entryName) ==
  LET matches == MatchById(remoteEntries, Get(localEntry, "id"))
      remoteEntry == Last(matches)
  IN  IF matches = <<>>
      THEN <<[type |-> "drift", entryName |-> entryName,
              id |-> Get(localEntry, "id"), key |-> ""]>>
      ELSE MapSeq(LAMBDA key: [type |-> "immutable", entryName |-> entryName,
                               id |-> Get(localEntry, "id"), key |-> key],
                  SelectSeq(Differences(localEntry, remoteEntry),
                            LAMBDA key: key \notin ALLOWED_UPDATE_KEYS[entryName]))

UpdatedWarnings(localEntries, remoteEntries, entryName) ==
  FlatMap(LAMBDA l: EntryWarnings(l, remoteEntries, entryName), localEntries)

\* Variant of GetDeactivatedEntries: only a missing local entry deactivates.
GetDeactivatedEntries_MissingOnly(localEntries, remoteEntries) ==
  SelectSeq(remoteEntries,
            LAMBDA remote: MatchById(localEntries, Get(remote, "id")) = <<>>)

\* getDeactivatedEntries: remote entries with no local entry or an inactive one.
GetDeactivatedEntries(localEntries, remoteEntries) ==
  SelectSeq(remoteEntries,
            LAMBDA remote:
              LET matches == MatchById(localEntries, Get(remote, "id"))
                  localEntry == Last(matches)
              IN  matches = <<>> \/ Falsy(Get(localEntry, "active")))

\* Variant of GetDeletedCoupons: coupons treated like the other kinds.
GetDeletedCoupons_ActiveAware(localCoupons, remoteCoupons) ==
  GetDeactivatedEntries(localCoupons, remoteCoupons)

\* getDeletedCoupons: remote coupons with no local entry.
GetDeletedCoupons(localCoupons, remoteCoupons) ==
  SelectSeq(remoteCoupons,
            LAMBDA remote: MatchById(localCoupons, Get(remote, "id")) = <<>>)

CalculateDifferences(localConfig, remoteConfig) ==
  LET localProductsForUpdateCheck ==
        MapSeq(LAMBDA product: Omit(product, "prices"),
               SelectSeq(localConfig.products, UpdateableEntries))
      updateablePrices  == SelectSeq(localConfig.prices, UpdateableEntries)
      updateableTaxes   == SelectSeq(localConfig.taxes, UpdateableEntries)
      updateableCoupons == SelectSeq(localConfig.coupons, UpdateableEntries)
  IN  [products |->
         [new |-> GetNewEntries(localConfig.products),
          updated |-> GetUpdatedEntries(localProductsForUpdateCheck,
                                        remoteConfig.products, "product"),
          deactivated |-> GetDeactivatedEntries(localConfig.products,
                                                remoteConfig.products)],
       prices |->
         [new |-> GetNewEntries(localConfig.prices),
          updated |-> GetUpdatedEntries(updateablePrices, remoteConfig.prices, "price"),
          deactivated |-> GetDeactivatedEntries(localConfig.prices, remoteConfig.prices)],
       taxes |->
         [new |-> GetNewEntries(localConfig.taxes),
          updated |-> GetUpdatedEntries(updateableTaxes, remoteConfig.taxes, "tax"),
          deactivated |-> GetDeactivatedEntries(localConfig.taxes, remoteConfig.taxes)],
       coupons |->
         [new |-> GetNewCoupons(localConfig.coupons, remoteConfig.coupons),
          updated |-> GetUpdatedEntries(updateableCoupons, remoteConfig.coupons, "coupon"),
          deactivated |-> GetDeletedCoupons(localConfig.coupons, remoteConfig.coupons)]]

\* The warnings calculateDifferences prints, in the order of its four
\* getUpdatedEntries calls.
CalculateWarnings(localConfig, remoteConfig) ==
  UpdatedWarnings(MapSeq(LAMBDA product: Omit(product, "prices"),
                         SelectSeq(localConfig.products, UpdateableEntries)),
                  remoteConfig.products, "product")
  \o UpdatedWarnings(SelectSeq(localConfig.prices, UpdateableEntries),
                     remoteConfig.prices, "price")
  \o UpdatedWarnings(SelectSeq(localConfig.taxes, UpdateableEntries),
                     remoteConfig.taxes, "tax")
  \o UpdatedWarnings(SelectSeq(localConfig.coupons, UpdateableEntries),
                     remoteConfig.coupons, "coupon")

\* Object.keys of one kind of the difference object.
DifferenceKeys == <<"new", "updated", "deactivated">>

\* Variant of CountDifferences: the prices nested in new products are not counted.
CountDifferences_NoNested(differences) ==
  SumSeq(LAMBDA key: Len(differences.products[key]) + Len(differences.prices[key])
                       + Len(differences.taxes[key]) + Len(differences.coupons[key]),
         <<"new", "updated", "deactivated">>)

\* countDifferences (the price total iterates over the keys of
\* differences.products, as the source does).
CountDifferences(differences) ==
  LET productDifferences ==
        SumSeq(LAMBDA key: Len(differences.products[key]), DifferenceKeys)
      newProductPriceDifferences ==
        SumSeq(LAMBDA product: Len(product.prices), differences.products.new)
      priceDifferences ==
        SumSeq(LAMBDA key: Len(differences.prices[key]), DifferenceKeys)
      taxDifferences ==
        SumSeq(LAMBDA key: Len(differences.taxes[key]), DifferenceKeys)
      couponDifferences ==
        SumSeq(LAMBDA key: Len(differences.coupons[key]), DifferenceKeys)
  IN  productDifferences + newProductPriceDifferences + priceDifferences
        + taxDifferences + couponDifferences

(***************************************************************************)
(* The catalog loader (stripe.js 42-146).                                  *)
(***************************************************************************)

\* Identifiers in ascending string order, as JavaScript compares them.
IdOrder ==
  <<"co_1", "co_2", "co_3", "co_4", "co_5", "co_6",
    "co_A", "co_B", "co_C", "co_D", "co_E",
    "price_1", "price_2", "price_3", "price_4", "price_5", "price_6",
    "price_7", "price_8", "price_9",
    "price_A", "price_B", "price_C", "price_D", "price_E",
    "prod_1", "prod_2", "prod_3", "prod_4", "prod_5", "prod_6",
    "prod_A", "prod_B", "prod_C", "prod_D", "prod_E",
    "txr_1", "txr_2", "txr_3", "txr_4", "txr_5", "txr_6",
    "txr_A", "txr_B", "txr_C", "txr_D", "txr_E">>

\* lodash's sort order on the sort key: defined values ascending, then null,
\* then undefined.
IdRank(v) ==
  IF v = UNDEF THEN Len(IdOrder) + 2
  ELSE IF v = NULL THEN Len(IdOrder) + 1
  ELSE IF \E i \in DOMAIN IdOrder : IdOrder[i] = v
       THEN CHOOSE i \in DOMAIN IdOrder : IdOrder[i] = v
       ELSE 0

\* Stable insertion of e into a list sorted by id.
RECURSIVE InsertById(_, _)
InsertById(e, sorted) ==
  IF sorted = <<>> THEN <<e>>
  ELSE IF IdRank(Get(e, "id")) < IdRank(Get(Head(sorted), "id"))
       THEN <<e>> \o sorted
       ELSE <<Head(sorted)>> \o InsertById(e, Tail(sorted))

\* lodash sortBy(list, 'id'): a stable sort.
RECURSIVE SortById(_)
SortById(list) ==
  IF list = <<>> THEN <<>>
  ELSE InsertById(list[Len(list)], SortById(SubSeq(list, 1, Len(list) - 1)))

(***************************************************************************)
(* A jurisdiction label is a JavaScript string that the loader builds and  *)
(* the writer splits, so it is modelled as its sequence of characters.     *)
(* The values undefined and null of a jurisdiction are the one-element     *)
(* sequences JUNDEF and JNULL, which no character sequence equals.         *)
(***************************************************************************)
JUNDEF == <<UNDEF>>
JNULL  == <<NULL>>

\* String(undefined), as a template literal renders it.
UndefinedChars == <<"u", "n", "d", "e", "f", "i", "n", "e", "d">>

\* The geography table `countries` of the project (country code -> name).
Countries ==
  [CA |-> <<"C", "a", "n", "a", "d", "a">>,
   US |-> <<"U", "n", "i", "t", "e", "d", " ", "S", "t", "a", "t", "e", "s">>]

\* countries[countryKey]
CountryName(countryKey) ==
  IF countryKey \in DOMAIN Countries THEN Countries[countryKey] ELSE JUNDEF

\* invert(countries)[name]: the code of a country name, else undefined.
KeyedCountryNames(name) ==
  IF \E c \in DOMAIN Countries : Countries[c] = name
  THEN CHOOSE c \in DOMAIN Countries : Countries[c] = name
  ELSE UNDEF

\* `${stateKey}, ${countries[countryKey]}`
StateLabel(stateKey, countryKey) ==
  stateKey \o <<",", " ">>
    \o (IF CountryName(countryKey) = JUNDEF THEN UndefinedChars
        ELSE CountryName(countryKey))

\* String.prototype.split(',')
RECURSIVE SplitComma(_)
SplitComma(str) ==
  IF \E i \in DOMAIN str : str[i] = ","
  THEN LET i == CHOOSE j \in DOMAIN str : str[j] = "," /\ \A k \in 1..(j - 1) : str[k] # ","
       IN  <<SubSeq(str, 1, i - 1)>> \o SplitComma(SubSeq(str, i + 1, Len(str)))
  ELSE <<str>>

\* String.prototype.trim()
RECURSIVE TrimLeft(_)
TrimLeft(str) == IF str # <<>> /\ Head(str) = " " THEN TrimLeft(Tail(str)) ELSE str

RECURSIVE TrimRight(_)
TrimRight(str) ==
  IF str # <<>> /\ str[Len(str)] = " " THEN TrimRight(SubSeq(str, 1, Len(str) - 1)) ELSE str

Trim(str) == TrimRight(TrimLeft(str))

\* A JSON object whose key order matters is a sequence of [key, val] pairs.
\* get(obj, key, dflt)
Lookup(obj, key, dflt) ==
  IF \E i \in DOMAIN obj : obj[i].key = key
  THEN obj[CHOOSE i \in DOMAIN obj : obj[i].key = key].val
  ELSE dflt

\* obj[key] = val: replaces in place, or appends a new key.
Assign(obj, key, val) ==
  IF \E i \in DOMAIN obj : obj[i].key = key
  THEN [i \in DOMAIN obj |-> IF obj[i].key = key THEN [key |-> key, val |-> val] ELSE obj[i]]
  ELSE Append(obj, [key |-> key, val |-> val])

\* getLocalConfig.  `threw` is set when the function throws (it logs and
\* rethrows); the lists are then not produced.
ConfigError == [threw |-> TRUE, products |-> <<>>, prices |-> <<>>, taxes |-> <<>>,
                coupons |-> <<>>]

\* Variant of FlatPrices: the prices of products without an id are kept.
FlatPrices_NoFilter(productsConfig) ==
  FlatMap(LAMBDA product:
            MapSeq(LAMBDA price: Spread([product |-> Get(product, "id")], price),
                   product.prices),
          productsConfig)

\* config.prices of getLocalConfig: every nested price with the id of its
\* product, the prices of a product without an id being filtered out.
FlatPrices(productsConfig) ==
  SelectSeq(
    FlatMap(LAMBDA product:
              MapSeq(LAMBDA price: Spread([product |-> Get(product, "id")], price),
                     product.prices),
            productsConfig),
    LAMBDA price: ~Falsy(price.product))

GetLocalConfig(files) ==
  LET productsConfig == files.products
      taxesConfig == files.taxes
      \* product.prices.map is a TypeError when a product has no prices
      pricesMissing == \E i \in DOMAIN productsConfig : "prices" \notin DOMAIN productsConfig[i]
      products == MapSeq(LAMBDA product:
                           Spread(product, [prices |-> SortById(product.prices)]),
                         SortById(productsConfig))
      prices == FlatPrices(productsConfig)
      countryTaxes ==
        FlatMap(LAMBDA country:
                  MapSeq(LAMBDA taxConfig:
                           Spread([jurisdiction |-> CountryName(country.key)], taxConfig),
                         country.val),
                taxesConfig.countries)
      stateTaxes ==
        FlatMap(LAMBDA country:
                  FlatMap(LAMBDA state:
                            MapSeq(LAMBDA taxConfig:
                                     Spread([jurisdiction |->
                                               StateLabel(state.key, country.key)],
                                            taxConfig),
                                   state.val),
                          country.val),
                taxesConfig.states)
  IN  IF files.status # "ok" \/ pricesMissing
      THEN ConfigError
      ELSE [threw |-> FALSE, products |-> products, prices |-> prices,
            taxes |-> countryTaxes \o stateTaxes, coupons |-> files.coupons]

EmptyTaxes == [countries |-> <<>>, states |-> <<>>]

\* JSON.stringify leaves out the keys whose value is undefined.
JsonStrip(obj) ==
  [k \in {x \in DOMAIN obj : x = "prices" \/ obj[x] # UNDEF} |-> obj[k]]

\* writeLocalConfig, "Add prices to products": the price, without its product
\* key, is appended to every product whose id is the price's product.
AddPrice(products, price) ==
  [i \in DOMAIN products |->
     IF Get(price, "product") = Get(products[i], "id")
     THEN Spread(products[i],
                 [prices |-> (IF "prices" \in DOMAIN products[i]
                              THEN products[i].prices ELSE <<>>)
                             \o <<JsonStrip(Omit(price, "product"))>>])
     ELSE products[i]]

RECURSIVE AddPrices(_, _)
AddPrices(products, prices) ==
  IF prices = <<>> THEN products
  ELSE AddPrices(AddPrice(products, Head(prices)), Tail(prices))

\* writeLocalConfig, "Build taxes format": one tax pushed into newTaxes.
AddTax(newTaxes, tax) ==
  LET jurisdiction == MapSeq(Trim, SplitComma(tax.jurisdiction))
      entry == JsonStrip(Omit(tax, "jurisdiction"))
  IN  IF Len(jurisdiction) = 1
      THEN LET country == KeyedCountryNames(jurisdiction[1])
           IN  [newTaxes EXCEPT !.countries =
                  Assign(newTaxes.countries, country,
                         Append(Lookup(newTaxes.countries, country, <<>>), entry))]
      ELSE LET state == jurisdiction[1]
               country == KeyedCountryNames(jurisdiction[2])
               states == Lookup(newTaxes.states, country, <<>>)
           IN  [newTaxes EXCEPT !.states =
                  Assign(newTaxes.states, country,
                         Assign(states, state,
                                Append(Lookup(states, state, <<>>), entry)))]

RECURSIVE AddTaxes(_, _)
AddTaxes(newTaxes, taxes) ==
  IF taxes = <<>> THEN newTaxes ELSE AddTaxes(AddTax(newTaxes, Head(taxes)), Tail(taxes))

\* writeLocalConfig(config) applied to the files: the files it leaves behind.
\* tax.jurisdiction.split throws on a null jurisdiction, after products.json
\* was written and before taxes.json and coupons.json are.
WriteLocalConfig(config, old) ==
  LET products == MapSeq(JsonStrip, AddPrices(config.products, config.prices))
      splitThrows == \E i \in DOMAIN config.taxes :
                       config.taxes[i].jurisdiction \in {JNULL, JUNDEF}
  IN  IF splitThrows
      THEN [threw |-> TRUE, files |-> [old EXCEPT !.products = products]]
      ELSE [threw |-> FALSE,
            files |-> [status |-> "ok", products |-> products,
                       taxes |-> AddTaxes(EmptyTaxes, config.taxes),
                       coupons |-> MapSeq(JsonStrip, config.coupons)]]

(***************************************************************************)
(* The remote fetcher (stripe.js 155-288).  The provider holds, per kind,  *)
(* the list of its records in listing order.                               *)
(***************************************************************************)
\* Most records in a page of a list response of the provider.
PageSize == 2

\* stripe.<kind>.list(params): the page of at most PageSize records that
\* follows the record whose id is params.starting_after (the first page when
\* there is no cursor), and whether more records follow the page.
StripeList(records, startingAfter) ==
  LET from == IF startingAfter = UNDEF THEN 1
              ELSE (CHOOSE i \in DOMAIN records : Get(records[i], "id") = startingAfter) + 1
      rest == SubSeq(records, from, Len(records))
  IN  [data |-> SubSeq(rest, 1, IF Len(rest) < PageSize THEN Len(rest) ELSE PageSize),
       has_more |-> Len(rest) > PageSize]

\* The do...while loop of the four list functions: one list call per turn,
\* the cursor of the next call being the id of the last record of the page,
\* until a response says has_more is false.  Each call is logged with its
\* cursor and its response.
\* Variant of ListLoop: the loop stops after its first list call.
ListLoop_OnePage(records, startingAfter) ==
  LET response == StripeList(records, startingAfter)
  IN  <<[starting_after |-> startingAfter, data |-> response.data,
         has_more |-> response.has_more]>>

RECURSIVE ListLoop(_, _)
ListLoop(records, startingAfter) ==
  LET response == StripeList(records, startingAfter)
      next == IF response.data = <<>> THEN UNDEF ELSE Get(Last(response.data), "id")
  IN  <<[starting_after |-> startingAfter, data |-> response.data,
         has_more |-> response.has_more]>>
        \o (IF response.has_more THEN ListLoop(records, next) ELSE <<>>)

\* productList = productList.concat(response.data), over the calls of the loop.
Concat(listCalls) == FlatMap(LAMBDA c: c.data, listCalls)

\* Variant of ActiveList: the inactive records are kept.
ActiveList_Unfiltered(records) == Concat(ListLoop(records, UNDEF))

\* getStripeProductList / PriceList / TaxList: all pages, active records only.
ActiveList(records) ==
  SelectSeq(Concat(ListLoop(records, UNDEF)), LAMBDA r: ~Falsy(Get(r, "active")))

\* getStripeCouponList: all pages.
CouponList(records) == Concat(ListLoop(records, UNDEF))

\* get(record, 'metadata', {})
MetadataOf(record) == GetOr(record, "metadata", "{}")

GetRemoteConfig(stripe) ==
  [products |->
     MapSeq(LAMBDA product:
              [id |-> Get(product, "id"), name |-> Get(product, "name"),
               description |-> Get(product, "description"),
               active |-> Get(product, "active"), metadata |-> MetadataOf(product)],
            SortById(ActiveList(stripe.products))),
   prices |->
     MapSeq(LAMBDA price:
              [id |-> Get(price, "id"), product |-> Get(price, "product"),
               nickname |-> Get(price, "nickname"), active |-> Get(price, "active"),
               unit_amount |-> Get(price, "unit_amount"),
               currency |-> Get(price, "currency"),
               interval |-> Get(price.recurring, "interval"),
               interval_count |-> Get(price.recurring, "interval_count"),
               metadata |-> MetadataOf(price)],
            SortById(ActiveList(stripe.prices))),
   taxes |->
     MapSeq(LAMBDA tax:
              [id |-> Get(tax, "id"), display_name |-> Get(tax, "display_name"),
               description |-> Get(tax, "description"), active |-> Get(tax, "active"),
               inclusive |-> Get(tax, "inclusive"), percentage |-> Get(tax, "percentage"),
               metadata |-> MetadataOf(tax), jurisdiction |-> tax.jurisdiction],
            SortById(ActiveList(stripe.taxes))),
   coupons |->
     MapSeq(LAMBDA coupon:
              [id |-> Get(coupon, "id"), name |-> Get(coupon, "name"),
               duration |-> Get(coupon, "duration"), currency |-> Get(coupon, "currency"),
               metadata |-> MetadataOf(coupon),
               amount_off |-> GetOr(coupon, "amount_off", NULL),
               duration_in_months |-> GetOr(coupon, "duration_in_months", NULL),
               percent_off |-> GetOr(coupon, "percent_off", NULL),
               max_redemptions |-> GetOr(coupon, "max_redemptions", NULL),
               redeem_by |-> GetOr(coupon, "redeem_by", NULL)],
            SortById(CouponList(stripe.coupons)))]

\* The list calls one getRemoteConfig issues, in order: the pages of the
\* products, then of the prices, of the tax rates and of the coupons.
KindCalls(kind, records) ==
  MapSeq(LAMBDA c: [kind |-> kind, starting_after |-> c.starting_after,
                    data |-> c.data, has_more |-> c.has_more],
         ListLoop(records, UNDEF))

ListCalls(stripe) ==
  KindCalls("products", stripe.products) \o KindCalls("prices", stripe.prices)
    \o KindCalls("taxes", stripe.taxes) \o KindCalls("coupons", stripe.coupons)

(***************************************************************************)
(* The provider (the `stripe` client of stripe.js 3): create, update and   *)
(* del on the records of each kind.                                        *)
(***************************************************************************)
\* Identifiers the provider assigns from now on, per kind, in the order it
\* assigns them: it never assigns again an identifier it has assigned before,
\* so none of them occurs in a local file or in the provider's records.
ProviderIds ==
  [products |-> <<"prod_3", "prod_4", "prod_5", "prod_6">>,
   prices   |-> <<"price_3", "price_4", "price_5", "price_6", "price_7", "price_8", "price_9">>,
   taxes    |-> <<"txr_3", "txr_4", "txr_5", "txr_6">>,
   coupons  |-> <<"co_4", "co_5", "co_6">>]

UsedIds(records) == {Get(records[i], "id") : i \in DOMAIN records}

\* The next identifier the provider assigns to a record of a kind.
NewId(stripe, kind) ==
  LET free == SelectSeq(ProviderIds[kind], LAMBDA id: id \notin UsedIds(stripe[kind]))
  IN  Head(free)

\* The request parameters that reach the provider: the client leaves out the
\* keys whose value is undefined.
SentParams(params) ==
  [k \in {x \in DOMAIN params :
            IF x = "jurisdiction" THEN params[x] # JUNDEF
            ELSE IF x = "recurring" THEN TRUE
            ELSE params[x] # UNDEF} |-> params[k]]

\* What the provider fills in for a parameter a create call does not carry.
CreateDefaults ==
  [products |-> [name |-> NULL, description |-> NULL, active |-> JTRUE, metadata |-> "{}"],
   prices   |-> [nickname |-> NULL, active |-> JTRUE, metadata |-> "{}"],
   taxes    |-> [description |-> NULL, active |-> JTRUE, metadata |-> "{}",
                 jurisdiction |-> JNULL],
   coupons  |-> [name |-> NULL, currency |-> NULL, metadata |-> "{}"]]

\* The id of the record a create call makes: the caller's, when it sends one.
CreatedId(stripe, kind, params) ==
  IF ~Falsy(Get(params, "id")) THEN params.id ELSE NewId(stripe, kind)

\* stripe.<kind>.create(params)
StripeCreate(stripe, kind, params) ==
  [stripe EXCEPT ![kind] =
     Append(@, Spread(Spread(CreateDefaults[kind], SentParams(params)),
                      [id |-> CreatedId(stripe, kind, params)]))]

\* stripe.<kind>.update(id, params)
StripeUpdate(stripe, kind, id, params) ==
  [stripe EXCEPT ![kind] =
     [i \in DOMAIN @ |-> IF Get(@[i], "id") = id THEN Spread(@[i], SentParams(params))
                         ELSE @[i]]]

\* stripe.coupons.del(id)
StripeDel(stripe, kind, id) ==
  [stripe EXCEPT ![kind] = SelectSeq(@, LAMBDA r: Get(r, "id") # id)]

(***************************************************************************)
(* The applier (stripe.js 539-724): payload conversions and the order of   *)
(* the loops of applyChanges.                                              *)
(***************************************************************************)
ConvertStripeProduct(product) == Omit(product, "prices")

ConvertStripePrice(price, productId) ==
  [product |-> productId, nickname |-> Get(price, "nickname"),
   active |-> Get(price, "active"), unit_amount |-> Get(price, "unit_amount"),
   currency |-> Get(price, "currency"), metadata |-> Get(price, "metadata"),
   recurring |-> [interval |-> Get(price, "interval"),
                  interval_count |-> Get(price, "interval_count")]]

ConvertStripeTax(tax) == tax

\* omitBy(coupon, isNil)
ConvertStripeCoupon(coupon) ==
  [k \in {x \in DOMAIN coupon : coupon[x] \notin {NULL, UNDEF}} |-> coupon[k]]

\* The iterations of the twelve for...of loops of applyChanges, in the order
\* the function runs them.
Steps(step, entries) == MapSeq(LAMBDA e: [step |-> step, entry |-> e], entries)

\* Variant of ApplyPlan: the new prices are created before the products are
\* updated and deactivated.
ApplyPlan_PricesEarly(d) ==
  Steps("newProduct", d.products.new)
  \o Steps("newPrice", d.prices.new)
  \o Steps("updatedProduct", d.products.updated)
  \o Steps("deactivatedProduct", d.products.deactivated)
  \o Steps("updatedPrice", d.prices.updated)
  \o Steps("deactivatedPrice", d.prices.deactivated)
  \o Steps("newTax", d.taxes.new)
  \o Steps("updatedTax", d.taxes.updated)
  \o Steps("deactivatedTax", d.taxes.deactivated)
  \o Steps("newCoupon", d.coupons.new)
  \o Steps("updatedCoupon", d.coupons.updated)
  \o Steps("deletedCoupon", d.coupons.deactivated)

ApplyPlan(d) ==
  Steps("newProduct", d.products.new)
  \o Steps("updatedProduct", d.products.updated)
  \o Steps("deactivatedProduct", d.products.deactivated)
  \o Steps("newPrice", d.prices.new)
  \o Steps("updatedPrice", d.prices.updated)
  \o Steps("deactivatedPrice", d.prices.deactivated)
  \o Steps("newTax", d.taxes.new)
  \o Steps("updatedTax", d.taxes.updated)
  \o Steps("deactivatedTax", d.taxes.deactivated)
  \o Steps("newCoupon", d.coupons.new)
  \o Steps("updatedCoupon", d.coupons.updated)
  \o Steps("deletedCoupon", d.coupons.deactivated)

\* One entry of the log of calls issued to the provider.  id is the id the
\* call targets or, for a create that has completed, the id it returned.
Call(kind, op, id, params) == [kind |-> kind, op |-> op, id |-> id, params |-> params]

(***************************************************************************)
(* Bounds.                                                                 *)
(***************************************************************************)
\* Longest list of local entities of one kind in the reconciler's inputs.
MaxLocal == 2
\* Most prices nested under one local product in the reconciler's inputs.
MaxNested == 1
\* Longest list of local entities of one kind in the inputs of the command.
MaxSynced == 1
\* Most prices nested in the local products file in the inputs of the command.
MaxSyncedNested == 2
\* Most records of one kind the provider lists in the inputs of the command
\* that page through an account.
MaxListed == 4

(***************************************************************************)
(* State.                                                                  *)
(***************************************************************************)
VARIABLES
  files,         \* the local catalog files app/config/stripe/*.json
  localConfig,   \* this.localConfig (result of getLocalConfig)
  remoteConfig,  \* this.remoteConfig (result of getRemoteConfig)
  differences,   \* the difference object computed by calculateDifferences
  warnings,      \* the warnings printed by getUpdatedEntries, in order
  total,         \* the last result of countDifferences, -1 before any
  pc,            \* position of the command
  env,           \* the environment: project directory, STRIPE_SK
  args,          \* the command line: verb and the confirm option
  stripe,        \* the provider's records of each kind
  calls,         \* the create, update and del calls issued so far, in order
  pending,       \* price creates issued by applyChanges and not completed
  progress,      \* the IncrementableProgress of applyChanges
  todo,          \* the loop iterations applyChanges has still to run
  rejected,      \* the calls the provider has rejected, in order
  answer,        \* the user's answer to confirmChanges: "unasked", "yes", "no"
  fetches        \* the list calls the provider has answered, in order

cmdVars == <<env, args, stripe, calls, pending, progress, todo, rejected, answer, fetches>>
vars == <<files, localConfig, remoteConfig, differences, warnings, total, pc,
          env, args, stripe, calls, pending, progress, todo, rejected, answer, fetches>>

EmptyConfig == [products |-> <<>>, prices |-> <<>>, taxes |-> <<>>, coupons |-> <<>>]
NoConfig == [threw |-> FALSE, products |-> <<>>, prices |-> <<>>, taxes |-> <<>>,
             coupons |-> <<>>]
EmptyKind == [new |-> <<>>, updated |-> <<>>, deactivated |-> <<>>]
NoDifferences == [products |-> EmptyKind, prices |-> EmptyKind, taxes |-> EmptyKind,
                  coupons |-> EmptyKind]
EmptyFiles == [status |-> "ok", products |-> <<>>, taxes |-> EmptyTaxes, coupons |-> <<>>]

\* obj with key set to val, or left without the key when val is undefined.
WithKey(obj, key, val) == IF val = UNDEF THEN obj ELSE Spread(obj, [k \in {key} |-> val])

(***************************************************************************)
(* Inputs of the reconciler: entities of each kind as the local files and  *)
(* the remote fetch can hold them.                                         *)
(***************************************************************************)
Canada == Countries["CA"]
Alberta == <<"A", "B">>
\* A label the provider can hold that names the country by its code: "CA, US".
CaliforniaUS == <<"C", "A", ",", " ", "U", "S">>

FileProduct(id, active, unitLabel, prices) ==
  WithKey(WithKey([name |-> "Pro", description |-> NULL, active |-> active,
                   metadata |-> "{}", prices |-> prices],
                  "id", id), "unit_label", unitLabel)

FilePrice(id, active, unitAmount) ==
  WithKey([nickname |-> "Monthly", active |-> active, unit_amount |-> unitAmount,
           currency |-> "usd", interval |-> "month", interval_count |-> "1",
           metadata |-> "{}"], "id", id)

FileTax(id, active, percentage) ==
  WithKey([display_name |-> "GST", description |-> NULL, active |-> active,
           inclusive |-> JFALSE, percentage |-> percentage, metadata |-> "{}"],
          "id", id)

FileCoupon(id, percentOff, active) ==
  WithKey(WithKey([name |-> "Launch", duration |-> "once", currency |-> NULL,
                   metadata |-> "{}", amount_off |-> NULL, duration_in_months |-> NULL,
                   percent_off |-> percentOff, max_redemptions |-> NULL,
                   redeem_by |-> NULL], "id", id), "active", active)

\* Entities in the shape getRemoteConfig returns them (stripe.js 166-207).
RemoteProduct(id, name) ==
  [id |-> id, name |-> name, description |-> NULL, active |-> JTRUE, metadata |-> "{}"]

RemotePrice(id, product, nickname) ==
  [id |-> id, product |-> product, nickname |-> nickname, active |-> JTRUE,
   unit_amount |-> "1000", currency |-> "usd", interval |-> "month",
   interval_count |-> "1", metadata |-> "{}"]

RemoteTax(id, displayName, jurisdiction) ==
  [id |-> id, display_name |-> displayName, description |-> NULL, active |-> JTRUE,
   inclusive |-> JFALSE, percentage |-> "5", metadata |-> "{}",
   jurisdiction |-> jurisdiction]

RemoteCoupon(id, name) ==
  [id |-> id, name |-> name, duration |-> "once", currency |-> NULL, metadata |-> "{}",
   amount_off |-> NULL, duration_in_months |-> NULL, percent_off |-> "10",
   max_redemptions |-> NULL, redeem_by |-> NULL]

\* The lists sorted by id that hold, for each of two ids, no entity or one of
\* the entities of the set given for it.
RemoteLists(first, second) ==
  {a \o b : a \in {<<>>} \cup {<<e>> : e \in first},
            b \in {<<>>} \cup {<<e>> : e \in second}}

DiffProducts ==
  {FileProduct(id, active, unitLabel, <<>>) :
     id \in {UNDEF, NULL, "prod_1", "prod_2"}, active \in {JTRUE, JFALSE},
     unitLabel \in {UNDEF, "seat"}}

DiffPrices ==
  {FilePrice(UNDEF, JTRUE, "1000")}
  \cup {FilePrice("price_1", active, unitAmount) :
          active \in {JTRUE, JFALSE}, unitAmount \in {"1000", "2000"}}

DiffPriceOwners ==
  {FileProduct(id, JTRUE, UNDEF, prices) :
     id \in {UNDEF, "prod_1"}, prices \in SeqUpTo(DiffPrices, MaxNested)}

DiffTaxes ==
  {FileTax(id, active, percentage) :
     id \in {UNDEF, "txr_1", "txr_2"}, active \in {JTRUE, JFALSE},
     percentage \in {"5", "7"}}

DiffCoupons ==
  {FileCoupon(id, percentOff, active) :
     id \in {UNDEF, "co_1", "co_2"}, percentOff \in {"10", "20"},
     active \in {UNDEF, JFALSE}}

\* The pairs (local files, remote catalog) the reconciler is run on, one
\* predicate per family of inputs; in the first four a single kind is populated.
DiffInputProducts(f, r) ==
  \E l \in SeqUpTo(DiffProducts, MaxLocal) :
  \E rp \in RemoteLists({RemoteProduct("prod_1", n) : n \in {"Pro", "Max"}},
                        {RemoteProduct("prod_2", n) : n \in {"Pro", "Max"}}) :
    /\ f = [EmptyFiles EXCEPT !.products = l]
    /\ r = [EmptyConfig EXCEPT !.products = rp]

DiffInputPrices(f, r) ==
  \E l \in SeqUpTo(DiffPriceOwners, MaxLocal) :
  \E rp \in {<<>>, <<RemoteProduct("prod_1", "Pro")>>} :
  \E rq \in RemoteLists({RemotePrice("price_1", "prod_1", n) : n \in {"Monthly", "Yearly"}},
                        {RemotePrice("price_2", "prod_1", "Monthly")}) :
    /\ f = [EmptyFiles EXCEPT !.products = l]
    /\ r = [EmptyConfig EXCEPT !.products = rp, !.prices = rq]

DiffInputTaxes(f, r) ==
  \E l \in SeqUpTo(DiffTaxes, MaxLocal) :
  \E t \in {[countries |-> <<[key |-> "CA", val |-> l]>>, states |-> <<>>],
            [countries |-> <<>>,
             states |-> <<[key |-> "CA", val |-> <<[key |-> Alberta, val |-> l]>>]>>]} :
  \E rt \in RemoteLists({RemoteTax("txr_1", n, Canada) : n \in {"GST", "HST"}},
                        {RemoteTax("txr_2", n, Canada) : n \in {"GST", "HST"}}) :
    /\ f = [EmptyFiles EXCEPT !.taxes = t]
    /\ r = [EmptyConfig EXCEPT !.taxes = rt]

DiffInputCoupons(f, r) ==
  \E l \in SeqUpTo(DiffCoupons, MaxLocal) :
  \E rc \in RemoteLists({RemoteCoupon("co_1", n) : n \in {"Launch", "Spring"}},
                        {RemoteCoupon("co_2", n) : n \in {"Launch", "Spring"}}) :
    /\ f = [EmptyFiles EXCEPT !.coupons = l]
    /\ r = [EmptyConfig EXCEPT !.coupons = rc]

\* All four kinds populated at once.
DiffInputMixed(f, r) ==
  \E lp \in {<<>>,
             <<FileProduct(UNDEF, JTRUE, UNDEF, <<FilePrice(UNDEF, JTRUE, "1000")>>)>>,
             <<FileProduct("prod_1", JFALSE, UNDEF, <<FilePrice("price_1", JTRUE, "2000"),
                                                      FilePrice(UNDEF, JTRUE, "1000")>>)>>} :
  \E lt \in {<<>>, <<[key |-> "CA", val |-> <<FileTax(UNDEF, JTRUE, "5"),
                                              FileTax("txr_1", JTRUE, "5")>>]>>} :
  \E lc \in {<<>>, <<FileCoupon("co_1", "10", UNDEF), FileCoupon("co_3", "10", UNDEF)>>} :
  \E rp \in {<<>>, <<RemoteProduct("prod_1", "Pro")>>} :
  \E rq \in {<<>>, <<RemotePrice("price_1", "prod_1", "Monthly"),
                     RemotePrice("price_2", "prod_1", "Yearly")>>} :
  \E rt \in {<<>>, <<RemoteTax("txr_1", "HST", Canada), RemoteTax("txr_2", "GST", Canada)>>} :
  \E rc \in {<<>>, <<RemoteCoupon("co_1", "Spring"), RemoteCoupon("co_2", "Launch")>>} :
    /\ f = [EmptyFiles EXCEPT !.products = lp,
                              !.taxes = [countries |-> lt, states |-> <<>>],
                              !.coupons = lc]
    /\ r = [products |-> rp, prices |-> rq, taxes |-> rt, coupons |-> rc]

(***************************************************************************)
(* The reconciler run on its inputs: load, calculateDifferences,           *)
(* countDifferences.                                                       *)
(***************************************************************************)
InitDiff ==
  /\ \/ DiffInputProducts(files, remoteConfig)
     \/ DiffInputPrices(files, remoteConfig)
     \/ DiffInputTaxes(files, remoteConfig)
     \/ DiffInputCoupons(files, remoteConfig)
     \/ DiffInputMixed(files, remoteConfig)
  /\ localConfig = NoConfig
  /\ differences = NoDifferences
  /\ warnings = <<>>
  /\ total = -1
  /\ pc = "start"
  /\ env = [project |-> TRUE, STRIPE_SK |-> TRUE]
  /\ args = [verb |-> "diff", confirm |-> TRUE]
  /\ stripe = EmptyConfig
  /\ calls = <<>>
  /\ pending = <<>>
  /\ progress = [current |-> 0, total |-> 0]
  /\ todo = <<>>
  /\ rejected = <<>>
  /\ answer = "unasked"
  /\ fetches = <<>>

\* this.localConfig = getLocalConfig()
DiffLoad ==
  /\ pc = "start"
  /\ localConfig' = GetLocalConfig(files)
  /\ pc' = IF GetLocalConfig(files).threw THEN "failed" ELSE "loaded"
  /\ UNCHANGED <<files, remoteConfig, differences, warnings, total>>
  /\ UNCHANGED cmdVars

\* const differences = calculateDifferences(this.localConfig, this.remoteConfig)
DiffCalculate ==
  /\ pc = "loaded"
  /\ differences' = CalculateDifferences(localConfig, remoteConfig)
  /\ warnings' = warnings \o CalculateWarnings(localConfig, remoteConfig)
  /\ pc' = "diffed"
  /\ UNCHANGED <<files, localConfig, remoteConfig, total>>
  /\ UNCHANGED cmdVars

\* countDifferences(differences)
DiffCount ==
  /\ pc = "diffed"
  /\ total' = CountDifferences(differences)
  /\ pc' = "counted"
  /\ UNCHANGED <<files, localConfig, remoteConfig, differences, warnings>>
  /\ UNCHANGED cmdVars

NextDiff == DiffLoad \/ DiffCalculate \/ DiffCount

SpecDiff == InitDiff /\ [][NextDiff]_vars

(***************************************************************************)
(* The stripe command (part_017 317-479) run on local files and a          *)
(* provider account.                                                       *)
(***************************************************************************)
\* Records as the provider holds and lists them.
StripeProduct(id, name, active) ==
  [id |-> id, name |-> name, description |-> NULL, active |-> active, metadata |-> "{}"]

StripePrice(id, product, nickname) ==
  [id |-> id, product |-> product, nickname |-> nickname, active |-> JTRUE,
   unit_amount |-> "1000", currency |-> "usd", metadata |-> "{}",
   recurring |-> [interval |-> "month", interval_count |-> "1"]]

StripeTax(id, displayName, jurisdiction) ==
  [id |-> id, display_name |-> displayName, description |-> NULL, active |-> JTRUE,
   inclusive |-> JFALSE, percentage |-> "5", metadata |-> "{}",
   jurisdiction |-> jurisdiction]

StripeCoupon(id, name) ==
  [id |-> id, name |-> name, duration |-> "once", currency |-> NULL, metadata |-> "{}",
   amount_off |-> NULL, duration_in_months |-> NULL, percent_off |-> "10",
   max_redemptions |-> NULL, redeem_by |-> NULL]

SyncPrices ==
  {[FilePrice(UNDEF, JTRUE, "1000") EXCEPT !.nickname = "Monthly"],
   [FilePrice("price_1", JTRUE, "1000") EXCEPT !.nickname = "Monthly"],
   [FilePrice("price_1", JTRUE, "1000") EXCEPT !.nickname = "Yearly"]}

SyncProducts ==
  {FileProduct(UNDEF, JTRUE, UNDEF, prices) :
     prices \in SeqUpTo(SyncPrices, MaxSyncedNested)}
  \cup {FileProduct("prod_1", active, UNDEF, prices) :
          active \in {JTRUE, JFALSE}, prices \in SeqUpTo(SyncPrices, MaxSyncedNested)}

SyncTaxes ==
  {[FileTax(id, active, "5") EXCEPT !.display_name = name] :
     id \in {UNDEF, "txr_1"}, active \in {JTRUE, JFALSE}, name \in {"GST", "HST"}}

SyncCoupons ==
  {[FileCoupon(id, "10", UNDEF) EXCEPT !.name = name] :
     id \in {UNDEF, "co_1", "co_2"}, name \in {"Launch", "Spring"}}

\* The local files and the provider account the command is run on, one
\* predicate per family of inputs.
SyncInputProducts(f, st) ==
  \E l \in SeqUpTo(SyncProducts, MaxSynced) :
  \E sp \in {<<>>, <<StripeProduct("prod_1", "Pro", JTRUE)>>,
             <<StripeProduct("prod_1", "Max", JTRUE)>>} :
  \E sq \in {<<>>, <<StripePrice("price_1", "prod_1", "Monthly")>>} :
    /\ SumSeq(LAMBDA product: Len(product.prices), l) <= MaxSyncedNested
    /\ (sq # <<>> => sp # <<>>)
    /\ f = [EmptyFiles EXCEPT !.products = l]
    /\ st = [EmptyConfig EXCEPT !.products = sp, !.prices = sq]

SyncInputTaxes(f, st) ==
  \E l \in SeqUpTo(SyncTaxes, MaxSynced) :
  \E t \in {[countries |-> <<[key |-> "CA", val |-> l]>>, states |-> <<>>],
            [countries |-> <<>>,
             states |-> <<[key |-> "CA", val |-> <<[key |-> Alberta, val |-> l]>>]>>]} :
  \E sx \in {<<>>, <<StripeTax("txr_1", "GST", Canada)>>,
             <<StripeTax("txr_1", "GST", StateLabel(Alberta, "CA"))>>} :
    /\ f = [EmptyFiles EXCEPT !.taxes = t]
    /\ st = [EmptyConfig EXCEPT !.taxes = sx]

SyncInputCoupons(f, st) ==
  \E l \in SeqUpTo(SyncCoupons, MaxSynced) :
  \E sc \in {<<>>, <<StripeCoupon("co_1", "Launch")>>} :
    /\ f = [EmptyFiles EXCEPT !.coupons = l]
    /\ st = [EmptyConfig EXCEPT !.coupons = sc]

\* All four kinds populated at once, and an account with an inactive product.
SyncInputMixed(f, st) ==
  \E lp \in {<<>>,
             <<FileProduct(UNDEF, JTRUE, UNDEF, <<FilePrice(UNDEF, JTRUE, "1000")>>)>>,
             <<FileProduct("prod_1", JTRUE, "seat", <<>>)>>,
             <<FileProduct("prod_1", JTRUE, UNDEF, <<FilePrice("price_1", JTRUE, "1000"),
                                                     FilePrice(UNDEF, JTRUE, "1000")>>)>>} :
  \E lt \in {<<>>, <<[key |-> "CA", val |-> <<FileTax(UNDEF, JTRUE, "5")>>]>>} :
  \E lc \in {<<>>, <<FileCoupon("co_1", "10", UNDEF)>>} :
  \E full \in BOOLEAN :
    /\ f = [EmptyFiles EXCEPT !.products = lp,
                              !.taxes = [countries |-> lt, states |-> <<>>],
                              !.coupons = lc]
    /\ st = IF full
            THEN [products |-> <<StripeProduct("prod_1", "Max", JTRUE),
                                 StripeProduct("prod_2", "Old", JFALSE)>>,
                  prices |-> <<StripePrice("price_1", "prod_1", "Yearly"),
                               StripePrice("price_2", "prod_1", "Monthly")>>,
                  taxes |-> <<StripeTax("txr_1", "GST", Canada)>>,
                  coupons |-> <<StripeCoupon("co_1", "Spring"),
                                StripeCoupon("co_2", "Launch")>>]
            ELSE EmptyConfig

\* The records of a populated account, in the order the provider lists them:
\* not in the order of their ids, some inactive, one without metadata.
AccountRecords ==
  [products |->
     <<StripeProduct("prod_C", "Pro", JTRUE), StripeProduct("prod_A", "Max", JFALSE),
       Omit(StripeProduct("prod_D", "Team", JTRUE), "metadata"),
       [StripeProduct("prod_B", "Solo", JTRUE) EXCEPT !.metadata = "{tier}"],
       StripeProduct("prod_E", "Old", JFALSE)>>,
   prices |->
     <<StripePrice("price_C", "prod_C", "Monthly"),
       [StripePrice("price_A", "prod_A", "Monthly") EXCEPT !.active = JFALSE],
       Omit(StripePrice("price_D", "prod_C", "Yearly"), "metadata"),
       [StripePrice("price_B", "prod_B", "Monthly") EXCEPT !.metadata = "{tier}"],
       [StripePrice("price_E", "prod_B", "Yearly") EXCEPT !.active = JFALSE]>>,
   taxes |->
     <<StripeTax("txr_C", "GST", Canada),
       [StripeTax("txr_A", "HST", Canada) EXCEPT !.active = JFALSE],
       Omit(StripeTax("txr_D", "PST", StateLabel(Alberta, "CA")), "metadata"),
       [StripeTax("txr_B", "QST", CaliforniaUS) EXCEPT !.metadata = "{tier}"],
       [StripeTax("txr_E", "VAT", Canada) EXCEPT !.active = JFALSE]>>,
   coupons |->
     <<StripeCoupon("co_C", "Launch"), StripeCoupon("co_A", "Spring"),
       Omit(StripeCoupon("co_D", "Summer"), "metadata"),
       [StripeCoupon("co_B", "Autumn") EXCEPT !.metadata = "{tier}"],
       StripeCoupon("co_E", "Winter")>>]

\* An account that lists up to MaxListed records of one kind, starting
\* anywhere in AccountRecords, run against empty local files.
SyncInputAccount(f, st) ==
  \E kind \in {"products", "prices", "taxes", "coupons"} :
  \E n \in 0..MaxListed :
  \E k \in 0..(Len(AccountRecords[kind]) - 1) :
    /\ n <= Len(AccountRecords[kind])
    /\ f = EmptyFiles
    /\ st = [EmptyConfig EXCEPT
               ![kind] = [i \in 1..n |->
                            AccountRecords[kind][((i + k - 1) % Len(AccountRecords[kind])) + 1]]]

\* Local files that are absent or do not parse.
SyncInputUnreadable(f, st) ==
  \E status \in {"missing", "invalid"} :
    /\ f = [EmptyFiles EXCEPT !.status = status]
    /\ st = [EmptyConfig EXCEPT !.products = <<StripeProduct("prod_1", "Pro", JTRUE)>>]

Init ==
  /\ \/ SyncInputProducts(files, stripe)
     \/ SyncInputTaxes(files, stripe)
     \/ SyncInputCoupons(files, stripe)
     \/ SyncInputMixed(files, stripe)
     \/ SyncInputUnreadable(files, stripe)
     \/ SyncInputAccount(files, stripe)
  /\ env \in {[project |-> TRUE, STRIPE_SK |-> TRUE],
              [project |-> FALSE, STRIPE_SK |-> TRUE],
              [project |-> TRUE, STRIPE_SK |-> FALSE]}
  /\ args \in {[verb |-> "diff", confirm |-> TRUE],
               [verb |-> "import", confirm |-> TRUE],
               [verb |-> "sync", confirm |-> TRUE],
               [verb |-> "sync", confirm |-> FALSE]}
  /\ localConfig = NoConfig
  /\ remoteConfig = EmptyConfig
  /\ differences = NoDifferences
  /\ warnings = <<>>
  /\ total = -1
  /\ pc = "start"
  /\ calls = <<>>
  /\ pending = <<>>
  /\ progress = [current |-> 0, total |-> 0]
  /\ todo = <<>>
  /\ rejected = <<>>
  /\ answer = "unasked"
  /\ fetches = <<>>

\* execute: not a Nodewood project, or STRIPE_SK not set: log and return.
ExecuteAbort ==
  /\ pc = "start"
  /\ ~env.project \/ ~env.STRIPE_SK
  /\ pc' = "done"
  /\ UNCHANGED <<files, localConfig, remoteConfig, differences, warnings, total>>
  /\ UNCHANGED cmdVars

\* Variant of ExecuteLoad: the command goes on when getLocalConfig throws.
ExecuteLoad_IgnoreThrow ==
  /\ pc = "start"
  /\ env.project /\ env.STRIPE_SK
  /\ localConfig' = GetLocalConfig(files)
  /\ pc' = "loaded"
  /\ UNCHANGED <<files, remoteConfig, differences, warnings, total>>
  /\ UNCHANGED cmdVars

\* this.localConfig = getLocalConfig(); an exception ends the command.
ExecuteLoad ==
  /\ pc = "start"
  /\ env.project /\ env.STRIPE_SK
  /\ localConfig' = GetLocalConfig(files)
  /\ pc' = IF GetLocalConfig(files).threw THEN "failed" ELSE "loaded"
  /\ UNCHANGED <<files, remoteConfig, differences, warnings, total>>
  /\ UNCHANGED cmdVars

\* A list call of getRemoteConfig is rejected: the function throws.
FetchRejected ==
  \E n \in DOMAIN ListCalls(stripe) :
    /\ fetches' = fetches \o SubSeq(ListCalls(stripe), 1, n - 1)
    /\ rejected' = Append(rejected,
                          Call(ListCalls(stripe)[n].kind, "list", "",
                               [starting_after |-> ListCalls(stripe)[n].starting_after]))

\* this.remoteConfig = await getRemoteConfig(); a rejected list call ends the
\* command.
ExecuteFetch ==
  /\ pc = "loaded"
  /\ \/ /\ remoteConfig' = GetRemoteConfig(stripe)
        /\ fetches' = fetches \o ListCalls(stripe)
        /\ pc' = "fetched"
        /\ UNCHANGED rejected
     \/ /\ FetchRejected
        /\ pc' = "failed"
        /\ UNCHANGED remoteConfig
  /\ UNCHANGED <<files, localConfig, differences, warnings, total>>
  /\ UNCHANGED <<env, args, stripe, calls, pending, progress, todo, answer>>

\* type === 'diff': calculateDifferences, then this.diff(differences)
ExecuteDiff ==
  /\ pc = "fetched"
  /\ args.verb = "diff"
  /\ differences' = CalculateDifferences(localConfig, remoteConfig)
  /\ warnings' = warnings \o CalculateWarnings(localConfig, remoteConfig)
  /\ total' = CountDifferences(CalculateDifferences(localConfig, remoteConfig))
  /\ pc' = "done"
  /\ UNCHANGED <<files, localConfig, remoteConfig>>
  /\ UNCHANGED cmdVars

\* Variant of ExecuteImport: the coupons of the local file are kept.
ExecuteImport_KeepCoupons ==
  /\ pc = "fetched"
  /\ args.verb = "import"
  /\ files' = [WriteLocalConfig(remoteConfig, files).files EXCEPT !.coupons = files.coupons]
  /\ pc' = IF WriteLocalConfig(remoteConfig, files).threw THEN "failed" ELSE "done"
  /\ UNCHANGED <<localConfig, remoteConfig, differences, warnings, total>>
  /\ UNCHANGED cmdVars

\* type === 'import': writeLocalConfig(this.remoteConfig)
ExecuteImport ==
  /\ pc = "fetched"
  /\ args.verb = "import"
  /\ files' = WriteLocalConfig(remoteConfig, files).files
  /\ pc' = IF WriteLocalConfig(remoteConfig, files).threw THEN "failed" ELSE "done"
  /\ UNCHANGED <<localConfig, remoteConfig, differences, warnings, total>>
  /\ UNCHANGED cmdVars

\* type === 'sync': calculateDifferences, then sync() up to its if statement:
\* this.diff(differences) and countDifferences(differences).
ExecuteSync ==
  /\ pc = "fetched"
  /\ args.verb = "sync"
  /\ differences' = CalculateDifferences(localConfig, remoteConfig)
  /\ warnings' = warnings \o CalculateWarnings(localConfig, remoteConfig)
  /\ total' = CountDifferences(CalculateDifferences(localConfig, remoteConfig))
  /\ pc' = "confirm"
  /\ UNCHANGED <<files, localConfig, remoteConfig>>
  /\ UNCHANGED cmdVars

\* sync returns: nothing to apply (confirmChanges is then not called), or the
\* user declined confirmChanges().
SyncReturn ==
  /\ pc = "confirm"
  /\ total = 0 \/ args.confirm
  /\ answer' = IF total = 0 THEN answer ELSE "no"
  /\ pc' = "done"
  /\ UNCHANGED <<files, localConfig, remoteConfig, differences, warnings, total>>
  /\ UNCHANGED <<env, args, stripe, calls, pending, progress, todo, rejected, fetches>>

\* Variant of SyncApply: applyChanges starts whatever the user answers.
SyncApply_AnswerIgnored ==
  /\ pc = "confirm"
  /\ total # 0
  /\ answer' \in (IF args.confirm THEN {"yes", "no"} ELSE {answer})
  /\ progress' = [current |-> 0, total |-> CountDifferences(differences)]
  /\ todo' = ApplyPlan(differences)
  /\ pc' = "applying"
  /\ UNCHANGED <<files, localConfig, remoteConfig, differences, warnings, total>>
  /\ UNCHANGED <<env, args, stripe, calls, pending, rejected, fetches>>

\* sync goes on (confirm is off or the user confirmed) and applyChanges
\* starts: countDifferences, new IncrementableProgress(totalDifferences).
SyncApply ==
  /\ pc = "confirm"
  /\ total # 0
  /\ answer' = IF args.confirm THEN "yes" ELSE answer
  /\ progress' = [current |-> 0, total |-> CountDifferences(differences)]
  /\ todo' = ApplyPlan(differences)
  /\ pc' = "applying"
  /\ UNCHANGED <<files, localConfig, remoteConfig, differences, warnings, total>>
  /\ UNCHANGED <<env, args, stripe, calls, pending, rejected, fetches>>

\* The iteration applyChanges runs next.
AtStep(step) == pc = "applying" /\ todo # <<>> /\ Head(todo).step = step

Increment(by) == [progress EXCEPT !.current = @ + by]

\* The log entry of a call the provider rejects: a create returns no id.
Unanswered(call) == [call EXCEPT !.id = IF call.op = "create" THEN "" ELSE @]

\* An awaited call is rejected: the await throws, applyChanges and sync throw
\* with it, and nothing that follows the call is run.
RejectedCall(call) ==
  /\ calls' = Append(calls, Unanswered(call))
  /\ rejected' = Append(rejected, Unanswered(call))
  /\ pc' = "failed"
  /\ UNCHANGED <<files, localConfig, remoteConfig, differences, warnings, total>>
  /\ UNCHANGED <<env, args, stripe, pending, progress, todo, answer, fetches>>

\* A loop iteration that awaits one call, then increments the progress bar.
AwaitedCall(call, after) ==
  \/ /\ stripe' = after
     /\ calls' = Append(calls, call)
     /\ progress' = Increment(1)
     /\ todo' = Tail(todo)
     /\ UNCHANGED <<files, localConfig, remoteConfig, differences, warnings, total, pc>>
     /\ UNCHANGED <<env, args, pending, rejected, answer, fetches>>
  \/ RejectedCall(call)

\* "New products": the product create is awaited; the forEach then starts
\* the create of every nested price without waiting for any of them.
ApplyNewProduct ==
  /\ AtStep("newProduct")
  /\ LET product == Head(todo).entry
         params == ConvertStripeProduct(product)
         createdId == CreatedId(stripe, "products", params)
         priceParams == MapSeq(LAMBDA price: ConvertStripePrice(price, createdId),
                               product.prices)
     IN  \/ /\ stripe' = StripeCreate(stripe, "products", params)
            /\ calls' = Append(calls, Call("products", "create", createdId, params))
                          \o MapSeq(LAMBDA q: Call("prices", "create", "", q), priceParams)
            /\ pending' = pending \o priceParams
            /\ progress' = Increment(2)
            /\ todo' = Tail(todo)
            /\ UNCHANGED <<files, localConfig, remoteConfig, differences, warnings,
                           total, pc>>
            /\ UNCHANGED <<env, args, rejected, answer, fetches>>
         \/ RejectedCall(Call("products", "create", createdId, params))

\* pending without its i-th call.
Settled(i) == SubSeq(pending, 1, i - 1) \o SubSeq(pending, i + 1, Len(pending))

\* A price create started by the forEach completes at the provider.
CompleteNestedPrice ==
  /\ \E i \in DOMAIN pending :
       /\ stripe' = StripeCreate(stripe, "prices", pending[i])
       /\ pending' = Settled(i)
  /\ UNCHANGED <<files, localConfig, remoteConfig, differences, warnings, total, pc>>
  /\ UNCHANGED <<env, args, calls, progress, todo, rejected, answer, fetches>>

\* A price create started by the forEach is rejected.  Nothing awaits or
\* catches the promise of the forEach callback: the rejection is unhandled,
\* and the runtime either only warns about it or ends the process.
RejectNestedPrice ==
  /\ \E i \in DOMAIN pending :
       /\ rejected' = Append(rejected, Call("prices", "create", "", pending[i]))
       /\ pending' = Settled(i)
  /\ pc' \in (IF pc = "applying" THEN {pc, "crashed"} ELSE {pc})
  /\ UNCHANGED <<files, localConfig, remoteConfig, differences, warnings, total>>
  /\ UNCHANGED <<env, args, stripe, calls, progress, todo, answer, fetches>>

ApplyUpdatedProduct ==
  /\ AtStep("updatedProduct")
  /\ LET product == Head(todo).entry
     IN  AwaitedCall(Call("products", "update", product.id, Omit(product, "id")),
                     StripeUpdate(stripe, "products", product.id, Omit(product, "id")))

ApplyDeactivatedProduct ==
  /\ AtStep("deactivatedProduct")
  /\ LET product == Head(todo).entry
     IN  AwaitedCall(Call("products", "update", product.id, [active |-> JFALSE]),
                     StripeUpdate(stripe, "products", product.id, [active |-> JFALSE]))

ApplyNewPrice ==
  /\ AtStep("newPrice")
  /\ LET price == Head(todo).entry
         params == ConvertStripePrice(price, price.product)
     IN  AwaitedCall(Call("prices", "create", CreatedId(stripe, "prices", params), params),
                     StripeCreate(stripe, "prices", params))

\* The nickname is read from the key `nickanme`, as the source has it.
ApplyUpdatedPrice ==
  /\ AtStep("updatedPrice")
  /\ LET price == Head(todo).entry
         params == [nickname |-> Get(price, "nickanme"), active |-> Get(price, "active"),
                    metadata |-> Get(price, "metadata")]
     IN  AwaitedCall(Call("prices", "update", price.id, params),
                     StripeUpdate(stripe, "prices", price.id, params))

ApplyDeactivatedPrice ==
  /\ AtStep("deactivatedPrice")
  /\ LET price == Head(todo).entry
     IN  AwaitedCall(Call("prices", "update", price.id, [active |-> JFALSE]),
                     StripeUpdate(stripe, "prices", price.id, [active |-> JFALSE]))

ApplyNewTax ==
  /\ AtStep("newTax")
  /\ LET params == ConvertStripeTax(Head(todo).entry)
     IN  AwaitedCall(Call("taxes", "create", CreatedId(stripe, "taxes", params), params),
                     StripeCreate(stripe, "taxes", params))

ApplyUpdatedTax ==
  /\ AtStep("updatedTax")
  /\ LET tax == Head(todo).entry
         params == [active |-> Get(tax, "active"), display_name |-> Get(tax, "display_name"),
                    metadata |-> Get(tax, "metadata"),
                    description |-> Get(tax, "description")]
     IN  AwaitedCall(Call("taxes", "update", tax.id, params),
                     StripeUpdate(stripe, "taxes", tax.id, params))

ApplyDeactivatedTax ==
  /\ AtStep("deactivatedTax")
  /\ LET tax == Head(todo).entry
     IN  AwaitedCall(Call("taxes", "update", tax.id, [active |-> JFALSE]),
                     StripeUpdate(stripe, "taxes", tax.id, [active |-> JFALSE]))

ApplyNewCoupon ==
  /\ AtStep("newCoupon")
  /\ LET params == ConvertStripeCoupon(Head(todo).entry)
         call == Call("coupons", "create", CreatedId(stripe, "coupons", params), params)
     IN  \* the provider rejects a create that names an id it already holds
         IF call.id \in UsedIds(stripe.coupons)
         THEN RejectedCall(call)
         ELSE AwaitedCall(call, StripeCreate(stripe, "coupons", params))

ApplyUpdatedCoupon ==
  /\ AtStep("updatedCoupon")
  /\ LET coupon == Head(todo).entry
         params == [name |-> Get(coupon, "name"), metadata |-> Get(coupon, "metadata")]
     IN  AwaitedCall(Call("coupons", "update", coupon.id, params),
                     StripeUpdate(stripe, "coupons", coupon.id, params))

ApplyDeletedCoupon ==
  /\ AtStep("deletedCoupon")
  /\ LET coupon == Head(todo).entry
     IN  AwaitedCall(Call("coupons", "del", coupon.id, [id |-> coupon.id]),
                     StripeDel(stripe, "coupons", coupon.id))

\* applyChanges has returned: writeLocalConfig(await getRemoteConfig()); a
\* rejected list call makes sync throw before anything is written.
SyncSave ==
  /\ pc = "applying"
  /\ todo = <<>>
  /\ \/ /\ files' = WriteLocalConfig(GetRemoteConfig(stripe), files).files
        /\ pc' = IF WriteLocalConfig(GetRemoteConfig(stripe), files).threw
                 THEN "failed" ELSE "synced"
        /\ fetches' = fetches \o ListCalls(stripe)
        /\ UNCHANGED rejected
     \/ /\ FetchRejected
        /\ pc' = "failed"
        /\ UNCHANGED files
  /\ UNCHANGED <<localConfig, remoteConfig, differences, warnings, total>>
  /\ UNCHANGED <<env, args, stripe, calls, pending, progress, todo, answer>>

Next ==
  \/ ExecuteAbort
  \/ ExecuteLoad
  \/ ExecuteFetch
  \/ ExecuteDiff
  \/ ExecuteImport
  \/ ExecuteSync
  \/ SyncReturn
  \/ SyncApply
  \/ ApplyNewProduct
  \/ CompleteNestedPrice
  \/ RejectNestedPrice
  \/ ApplyUpdatedProduct
  \/ ApplyDeactivatedProduct
  \/ ApplyNewPrice
  \/ ApplyUpdatedPrice
  \/ ApplyDeactivatedPrice
  \/ ApplyNewTax
  \/ ApplyUpdatedTax
  \/ ApplyDeactivatedTax
  \/ ApplyNewCoupon
  \/ ApplyUpdatedCoupon
  \/ ApplyDeletedCoupon
  \/ SyncSave

Spec == Init /\ [][Next]_vars

(***************************************************************************)
(* Properties of the reconciler, checked under SpecDiff.                   *)
(***************************************************************************)
Kinds == {"products", "prices", "taxes", "coupons"}
EntryName == [products |-> "product", prices |-> "price", taxes |-> "tax",
              coupons |-> "coupon"]

\* calculateDifferences has returned.
Diffed == pc \in {"diffed", "counted"}

\* The local entities of a kind, a product being taken without its prices.
LocalEntities(kind) ==
  IF kind = "products"
  THEN MapSeq(LAMBDA product: Omit(product, "prices"), localConfig.products)
  ELSE localConfig[kind]

HasId(entity) == ~Falsy(Get(entity, "id"))

HasCounterpart(entity, kind) ==
  HasId(entity) /\ \E i \in DOMAIN remoteConfig[kind] : remoteConfig[kind][i].id = entity.id

Counterpart(entity, kind) ==
  remoteConfig[kind][CHOOSE i \in DOMAIN remoteConfig[kind] :
                       remoteConfig[kind][i].id = entity.id]

MutableKeysDiffer(entity, kind) ==
  \E k \in DOMAIN entity \cap ALLOWED_UPDATE_KEYS[EntryName[kind]] :
     entity[k] # Get(Counterpart(entity, kind), k)

ImmutableKeysDiffering(entity, kind) ==
  {k \in DOMAIN entity \ ALLOWED_UPDATE_KEYS[EntryName[kind]] :
     entity[k] # Get(Counterpart(entity, kind), k)}

ImmutableWarning(entity, kind, key) ==
  [type |-> "immutable", entryName |-> EntryName[kind], id |-> entity.id, key |-> key]

DriftWarning(entity, kind) ==
  [type |-> "drift", entryName |-> EntryName[kind], id |-> entity.id, key |-> ""]

\* C2: a local entity with a remote counterpart is in `updated` iff a key of
\* the mutable schema present on it differs from the counterpart; a differing
\* key outside the schema does not put it there and is warned about.
C2_UpdateDetection ==
  Diffed =>
    \A kind \in Kinds : \A i \in DOMAIN LocalEntities(kind) :
      LET entity == LocalEntities(kind)[i]
      IN  HasCounterpart(entity, kind) =>
            /\ (entity \in Range(differences[kind].updated))
                 <=> MutableKeysDiffer(entity, kind)
            /\ \A key \in ImmutableKeysDiffering(entity, kind) :
                 ImmutableWarning(entity, kind, key) \in Range(warnings)

\* An entity whose only differing keys are immutable was left out of `updated`
\* with a warning, next to an entity that was put there.
C2_Witness ==
  /\ Diffed
  /\ \E kind \in Kinds : \E i, j \in DOMAIN LocalEntities(kind) :
       LET only == LocalEntities(kind)[i]
           both == LocalEntities(kind)[j]
       IN  /\ HasCounterpart(only, kind) /\ HasCounterpart(both, kind)
           /\ ~MutableKeysDiffer(only, kind)
           /\ ImmutableKeysDiffering(only, kind) # {}
           /\ only \notin Range(differences[kind].updated)
           /\ MutableKeysDiffer(both, kind)
           /\ both \in Range(differences[kind].updated)

\* The indices of the local entities of a kind that carry a given id.
LocalMatches(kind, id) ==
  {i \in DOMAIN localConfig[kind] : Get(localConfig[kind][i], "id") = id}

\* C3: for products, prices and tax rates a remote entity is in `deactivated`
\* iff no local entity has its id or the local entity with its id is inactive;
\* never when its local counterpart is active.
C3_RemovalDetection ==
  Diffed =>
    \A kind \in {"products", "prices", "taxes"} :
      /\ Range(differences[kind].deactivated) \subseteq Range(remoteConfig[kind])
      /\ \A r \in Range(remoteConfig[kind]) :
           LET M == LocalMatches(kind, r.id)
               planned == r \in Range(differences[kind].deactivated)
           IN  /\ M = {} => planned
               /\ \A i \in M :
                    M = {i} => (planned <=> localConfig[kind][i].active = JFALSE)
               /\ (M # {} /\ \A i \in M : localConfig[kind][i].active = JTRUE)
                    => ~planned

\* One remote entity is deactivated because its local counterpart is inactive,
\* another is kept because its local counterpart is active.
C3_Witness ==
  /\ Diffed
  /\ \E kind \in {"products", "prices", "taxes"} :
       \E r1, r2 \in Range(remoteConfig[kind]) :
         /\ \E i \in LocalMatches(kind, r1.id) : localConfig[kind][i].active = JFALSE
         /\ r1 \in Range(differences[kind].deactivated)
         /\ \E i \in LocalMatches(kind, r2.id) : localConfig[kind][i].active = JTRUE
         /\ r2 \notin Range(differences[kind].deactivated)

\* The ids carried by the entities of a list.
IdsOf(list) == {Get(list[i], "id") : i \in DOMAIN list} \ {UNDEF, NULL}

\* C4: no entity id is in more than one of the lists new, updated and
\* deactivated of a kind.
C4_Disjoint ==
  Diffed =>
    \A kind \in Kinds :
      /\ IdsOf(differences[kind].new) \cap IdsOf(differences[kind].updated) = {}
      /\ IdsOf(differences[kind].new) \cap IdsOf(differences[kind].deactivated) = {}
      /\ IdsOf(differences[kind].updated) \cap IdsOf(differences[kind].deactivated) = {}

\* C5: a local coupon whose id is not in the remote list is in coupons.new,
\* not in coupons.updated and draws no drift warning; a local coupon is in
\* coupons.new iff its id is not in the remote list.
C5_CouponNew ==
  Diffed =>
    \A c \in Range(localConfig.coupons) :
      LET absent == Get(c, "id") \notin IdsOf(remoteConfig.coupons)
      IN  /\ (c \in Range(differences.coupons.new)) <=> absent
          /\ (HasId(c) /\ absent) =>
               /\ c \notin Range(differences.coupons.updated)
               /\ DriftWarning(c, "coupons") \notin Range(warnings)

\* C7: a remote coupon is in coupons.deactivated iff no local coupon has its
\* id, whatever `active` says.
C7_CouponDeletion ==
  Diffed =>
    /\ Range(differences.coupons.deactivated) \subseteq Range(remoteConfig.coupons)
    /\ \A r \in Range(remoteConfig.coupons) :
         (r \in Range(differences.coupons.deactivated))
           <=> (LocalMatches("coupons", r.id) = {})

\* A remote coupon is kept although its local counterpart says active: false,
\* and another one, without local counterpart, is deleted.
C7_Witness ==
  /\ Diffed
  /\ \E r1, r2 \in Range(remoteConfig.coupons) :
       /\ \E i \in LocalMatches("coupons", r1.id) :
            Get(localConfig.coupons[i], "active") = JFALSE
       /\ r1 \notin Range(differences.coupons.deactivated)
       /\ LocalMatches("coupons", r2.id) = {}
       /\ r2 \in Range(differences.coupons.deactivated)

\* The number of positions of a list that hold e.
Count(list, e) == Cardinality({i \in DOMAIN list : list[i] = e})

\* The prices without an id nested under a product of the products file.
IdlessPrices(product) == SelectSeq(product.prices, LAMBDA q: ~HasId(q))

\* A products.new entry is the file product p: same fields, same nested prices.
SameProduct(e, p) ==
  /\ Omit(e, "prices") = Omit(p, "prices")
  /\ \A q \in Range(e.prices) \cup Range(p.prices) : Count(e.prices, q) = Count(p.prices, q)

\* C8: every local price without an id is planned for creation exactly once:
\* under a product without an id, inside that product's products.new entry and
\* not in prices.new; under a product with an id, in prices.new with that id
\* as `product` and in no products.new entry.
C8_NestedDependency ==
  Diffed =>
    LET fileProducts == files.products
        plannedNew == differences.prices.new
        newProducts == differences.products.new
    IN  /\ \A e \in Range(newProducts) : ~HasId(e)
        /\ \A e \in Range(plannedNew) : HasId(e) = FALSE /\ ~Falsy(e.product)
        /\ \A p \in Range(fileProducts) :
             IF HasId(p)
             THEN \A q \in Range(IdlessPrices(p)) :
                    Count(plannedNew, Spread([product |-> p.id], q))
                      = SumSeq(LAMBDA o: IF Get(o, "id") = p.id
                                         THEN Count(IdlessPrices(o), q) ELSE 0,
                               fileProducts)
             ELSE Cardinality({i \in DOMAIN newProducts : SameProduct(newProducts[i], p)})
                    = Cardinality({i \in DOMAIN fileProducts :
                                     SameProduct(fileProducts[i], p)})
        /\ Len(plannedNew) + SumSeq(LAMBDA e: Len(IdlessPrices(e)), newProducts)
             = SumSeq(LAMBDA p: Len(IdlessPrices(p)), fileProducts)

\* A price without an id sits under a new product and another one under an
\* existing product.
C8_Witness ==
  /\ Diffed
  /\ \E p1, p2 \in Range(files.products) :
       /\ ~HasId(p1) /\ IdlessPrices(p1) # <<>>
       /\ HasId(p2) /\ IdlessPrices(p2) # <<>>
  /\ differences.prices.new # <<>>
  /\ \E e \in Range(differences.products.new) : e.prices # <<>>

\* Sum of F over a finite set.
RECURSIVE SumSet(_, _)
SumSet(F(_), S) ==
  IF S = {} THEN 0 ELSE LET x == CHOOSE x \in S : TRUE IN F(x) + SumSet(F, S \ {x})

\* The local catalog is one product without an id holding one price without an
\* id, and the remote catalog is empty.
C9_Scenario ==
  /\ Len(files.products) = 1
  /\ ~HasId(files.products[1])
  /\ Len(files.products[1].prices) = 1
  /\ ~HasId(files.products[1].prices[1])
  /\ files.taxes = EmptyTaxes
  /\ files.coupons = <<>>
  /\ remoteConfig = EmptyConfig

\* C9: countDifferences is the sum of the lengths of the three lists of the
\* four kinds plus the number of prices nested in the products.new entries; it
\* is 2 for one new product with one new price against an empty remote.
C9_Counting ==
  pc = "counted" =>
    /\ total = SumSet(LAMBDA kind: Len(differences[kind].new)
                                     + Len(differences[kind].updated)
                                     + Len(differences[kind].deactivated), Kinds)
               + SumSet(LAMBDA i: Len(differences.products.new[i].prices),
                        DOMAIN differences.products.new)
    /\ C9_Scenario => total = 2

\* The scenario has been counted.
C9_Witness == pc = "counted" /\ C9_Scenario /\ total = 2

(***************************************************************************)
(* Properties of the command, checked under Spec.                          *)
(***************************************************************************)
\* C1: once a sync has applied its changes and rewritten the local files from
\* the fresh fetch, and every call it issued has completed, reloading the
\* files and diffing them against the provider gives twelve empty lists.
C1_Idempotent ==
  (pc = "synced" /\ pending = <<>>) =>
    /\ ~GetLocalConfig(files).threw
    /\ CalculateDifferences(GetLocalConfig(files), GetRemoteConfig(stripe)) = NoDifferences

\* calculateDifferences has run in the command.
Calculated == total >= 0

\* A local entity with an id that no fetched remote entity has.
Drifted(entity, kind) ==
  HasId(entity) /\ entity.id \notin IdsOf(remoteConfig[kind])

CallsOf(kind, op) == SelectSeq(calls, LAMBDA c: c.kind = kind /\ c.op = op)

\* The number of creations of a kind the change set plans: its `new` entries
\* and, for prices, the prices nested in the new products.
PlannedCreates(kind) ==
  Len(differences[kind].new)
    + (IF kind = "prices"
       THEN SumSeq(LAMBDA p: Len(p.prices), differences.products.new)
       ELSE 0)

\* The command ended at its first fetch, on a rejected list call.
FetchAborted == pc = "failed" /\ rejected # <<>> /\ progress.total = 0

IsDeactivation(c) == c.op = "update" /\ DOMAIN c.params = {"active"}

IsNestedCreate(i) ==
  /\ calls[i].kind = "prices" /\ calls[i].op = "create"
  /\ \E j \in 1..(i - 1) :
       /\ calls[j].kind = "products" /\ calls[j].op = "create"
       /\ calls[j].id = calls[i].params.product

Group(i) ==
  LET c == calls[i]
      base == CASE c.kind = "products" -> 0
                [] c.kind = "prices" -> 3
                [] c.kind = "taxes" -> 6
                [] c.kind = "coupons" -> 9
  IN  IF IsNestedCreate(i) THEN 1
      ELSE IF c.op = "create" THEN base + 1
      ELSE IF c.op = "del" \/ IsDeactivation(c) THEN base + 3
      ELSE base + 2

\* The number of calls each group has when applyChanges is through.
GroupSize(g) ==
  CASE g = 1 -> Len(differences.products.new)
                  + SumSeq(LAMBDA p: Len(p.prices), differences.products.new)
    [] g = 2 -> Len(differences.products.updated)
    [] g = 3 -> Len(differences.products.deactivated)
    [] g = 4 -> Len(differences.prices.new)
    [] g = 5 -> Len(differences.prices.updated)
    [] g = 6 -> Len(differences.prices.deactivated)
    [] g = 7 -> Len(differences.taxes.new)
    [] g = 8 -> Len(differences.taxes.updated)
    [] g = 9 -> Len(differences.taxes.deactivated)
    [] g = 10 -> Len(differences.coupons.new)
    [] g = 11 -> Len(differences.coupons.updated)
    [] g = 12 -> Len(differences.coupons.deactivated)

\* C10: the calls are issued group after group in the order of section 4.4,
\* a nested price create following the create of its own product with no
\* other product create in between, and every group is issued in full.
C10_ApplyOrder ==
  /\ \A i, j \in DOMAIN calls : i < j => Group(i) <= Group(j)
  /\ \A i \in DOMAIN calls :
       IsNestedCreate(i) =>
         LET creates == {j \in 1..(i - 1) :
                           calls[j].kind = "products" /\ calls[j].op = "create"}
             latest == CHOOSE j \in creates : \A k \in creates : k <= j
         IN  calls[latest].id = calls[i].params.product
  /\ (pc = "synced" \/ (pc = "applying" /\ todo = <<>>)) =>
       \A g \in 1..12 : Cardinality({i \in DOMAIN calls : Group(i) = g}) = GroupSize(g)

\* A sync issued calls of at least three groups, nested price creates among
\* them.
C10_Witness ==
  /\ pc = "synced"
  /\ \E i \in DOMAIN calls : IsNestedCreate(i)
  /\ Cardinality({Group(i) : i \in DOMAIN calls}) >= 3

(***************************************************************************)
(* Properties of the applier and of the command, checked under Spec.       *)
(***************************************************************************)
\* A step that issues a remote call: a create, update or del of applyChanges,
\* or the list calls of a fetch.
IssuesRemoteCall == calls' # calls \/ ExecuteFetch \/ SyncSave

\* C11: at most one remote call is in flight at any time: a remote call is
\* issued only when every call issued before it has completed, and a step
\* leaves at most one call in flight.
C11_SequentialAccess ==
  [][IssuesRemoteCall => (pending = <<>> /\ Len(pending') <= 1)]_vars

\* A call issued by applyChanges has been rejected.
ApplyRejected == \E i \in DOMAIN rejected : rejected[i].op # "list"

\* C12: once a call issued by applyChanges has been rejected, the failure has
\* reached the caller of applyChanges and no further call is issued; the
\* rejection undoes nothing at the provider.
C12_FailureSemantics ==
  /\ [](ApplyRejected => pc = "failed")
  /\ [][ApplyRejected => calls' = calls]_vars
  /\ [][rejected' # rejected => stripe' = stripe]_vars

\* The positions of the log that a step appends.
Issued == (Len(calls) + 1)..Len(calls')

\* The i-th call of the log after a step creates a price nested under the
\* product at position j of that log.
NestedUnder(i, j) ==
  /\ j < i
  /\ calls'[j].kind = "products" /\ calls'[j].op = "create"
  /\ calls'[j].id # "" /\ calls'[j].id = calls'[i].params.product

\* C13: when a price create is issued, its product exists at the provider:
\* a nested price references the id the completed create of its product
\* returned, any other new price a product of the fetched remote catalog.
C13_ProductBeforePrice ==
  [][\A i \in Issued :
       (calls'[i].kind = "prices" /\ calls'[i].op = "create") =>
         /\ calls'[i].params.product \in UsedIds(stripe'.products)
         /\ \/ \E j \in DOMAIN calls' : NestedUnder(i, j)
            \/ calls'[i].params.product \in UsedIds(remoteConfig.products)]_vars

\* The keys of the payload of a logged call that reach the provider.
PayloadKeys(c) == DOMAIN SentParams(c.params)

\* C14: the payload of every update call has only keys of the mutable schema
\* of its kind.
C14_ImmutableIsolation ==
  \A i \in DOMAIN calls :
    calls[i].op = "update" =>
      PayloadKeys(calls[i]) \subseteq ALLOWED_UPDATE_KEYS[EntryName[calls[i].kind]]

\* The i-th call of the log updates the price `price` of prices.updated.
UpdatesPrice(i, price) ==
  /\ calls[i].kind = "prices" /\ calls[i].op = "update" /\ ~IsDeactivation(calls[i])
  /\ calls[i].id = price.id

\* C15: the update call of every updated price carries the local nickname,
\* and once it has succeeded the provider's price has that nickname.
C15_PriceNickname ==
  \A i \in DOMAIN calls :
    \A price \in Range(differences.prices.updated) :
      UpdatesPrice(i, price) =>
        /\ "nickname" \in PayloadKeys(calls[i])
        /\ calls[i].params.nickname = Get(price, "nickname")
        /\ calls[i] \notin Range(rejected) =>
             \A r \in Range(stripe.prices) : r.id = price.id => r.nickname = price.nickname

\* The value v of the payload key k is null or undefined.
IsNil(k, v) ==
  IF k = "recurring" THEN \E x \in DOMAIN v : v[x] = NULL
  ELSE IF k = "jurisdiction" THEN v \in {JNULL, JUNDEF}
  ELSE v \in {NULL, UNDEF}

\* C16: no payload of a create or update call has a key whose value is null
\* or undefined, and a coupon with one of amount_off and percent_off is
\* created with that key only.
C16_NullStripping ==
  \A i \in DOMAIN calls :
    calls[i].op \in {"create", "update"} =>
      /\ \A k \in PayloadKeys(calls[i]) : ~IsNil(k, calls[i].params[k])
      /\ (calls[i].kind = "coupons" /\ calls[i].op = "create") =>
           \A coupon \in Range(differences.coupons.new) :
             calls[i].params = ConvertStripeCoupon(coupon) =>
               \A k \in {"amount_off", "percent_off"} :
                 k \in PayloadKeys(calls[i]) <=> Get(coupon, k) \notin {NULL, UNDEF}

\* applyChanges has run all its loops without a rejected awaited call.
ApplyCompleted == (pc = "applying" /\ todo = <<>>) \/ pc = "synced"

\* C17: the progress bar of applyChanges is sized to countDifferences of the
\* change set, its current value never exceeds its total, and equals it when
\* applyChanges has completed.
C17_ProgressAccounting ==
  /\ pc \in {"applying", "synced"} => progress.total = CountDifferences(differences)
  /\ progress.current <= progress.total
  /\ ApplyCompleted => progress.current = progress.total

\* A create call whose record the fetch lists: active, or a coupon.
CreatesListed(c) ==
  /\ c.op = "create"
  /\ c.kind = "coupons" \/ ~Falsy(GetOr(c.params, "active", JTRUE))

\* The prices written under the product `productId` of the local files.
FilePricesOf(productId) ==
  FlatMap(LAMBDA p: IF Get(p, "id") = productId /\ "prices" \in DOMAIN p
                    THEN p.prices ELSE <<>>,
          files.products)

\* The ids of the tax rates of the local files.
FileTaxIds ==
  {Get(t, "id") : t \in UNION {Range(c.val) : c \in Range(files.taxes.countries)}}
    \cup {Get(t, "id") :
            t \in UNION {Range(s.val) :
                           s \in UNION {Range(c.val) : c \in Range(files.taxes.states)}}}

\* The ids the local files have for a kind other than prices.
FileIds(kind) ==
  CASE kind = "products" -> UsedIds(files.products)
    [] kind = "taxes" -> FileTaxIds
    [] kind = "coupons" -> UsedIds(files.coupons)

\* The prices of the files under a product that this run created.
CapturedPrices(productId) ==
  SelectSeq(FilePricesOf(productId),
            LAMBDA q: \E n \in DOMAIN ProviderIds.prices : ProviderIds.prices[n] = Get(q, "id"))

\* C18: when a sync has saved the local files and no call was rejected, the
\* files hold every listed record the run created: each created product, tax
\* rate and coupon by the id the provider returned, and under each product
\* written as many new prices as the run issued creates for.
C18_NewIdsCaptured ==
  (pc = "synced" /\ rejected = <<>>) =>
    \A i \in DOMAIN calls :
      CreatesListed(calls[i]) =>
        IF calls[i].kind = "prices"
        THEN calls[i].params.product \in FileIds("products") =>
               Len(CapturedPrices(calls[i].params.product))
                 = Len(SelectSeq(calls, LAMBDA c: c.kind = "prices" /\ CreatesListed(c)
                                          /\ c.params.product = calls[i].params.product))
        ELSE calls[i].id \in FileIds(calls[i].kind)

\* C19: the local files change only in `import`, or in `sync` once
\* applyChanges has run all its calls and every one of them has succeeded.
C19_Persistence ==
  [][files' # files =>
       \/ args.verb = "import"
       \/ /\ args.verb = "sync"
          /\ ApplyCompleted /\ calls # <<>>
          /\ pending = <<>> /\ ~ApplyRejected]_vars

\* C20: a create, update or del call has been issued only in a `sync` whose
\* change set is not empty and that either runs without confirmation or was
\* confirmed by the user; `diff` and `import` issue none.
C20_MutationGate ==
  (calls # <<>> \/ pending # <<>> \/ ApplyRejected) =>
    /\ args.verb = "sync"
    /\ total > 0 /\ total = CountDifferences(differences)
    /\ ~args.confirm \/ answer = "yes"

\* A sync the user confirmed has issued calls that changed the provider.
C20_Witness ==
  /\ args.verb = "sync" /\ args.confirm /\ answer = "yes"
  /\ calls # <<>>
  /\ stripe # EmptyConfig

(***************************************************************************)
(* Claims C21..C30.                                                        *)
(***************************************************************************)
\* STRIPE_SK is not set, or the local files are missing or do not parse.
FatalStart == ~env.STRIPE_SK \/ files.status # "ok"

\* No call to the provider has been issued: no list call answered or
\* rejected, no create, update or del call.
NoRemoteCall == fetches = <<>> /\ rejected = <<>> /\ calls = <<>> /\ pending = <<>>

\* C21: when STRIPE_SK is absent, or the local files are missing or
\* unparseable, the command ends before the fetch (it never gets past the
\* load), issues no list, create, update or del call, and never writes the
\* local files.
C21_FatalBeforeNetwork ==
  /\ [](FatalStart => NoRemoteCall /\ pc \in {"start", "done", "failed"})
  /\ [][FatalStart => files' = files /\ pc' \in {"done", "failed"}]_vars

\* The command has ended on unparseable local files, with a key and a
\* provider account that lists a product.
C21_Witness ==
  /\ files.status = "invalid" /\ env.STRIPE_SK /\ env.project
  /\ pc = "failed" /\ stripe.products # <<>>

\* The orders a list can be written in.
Perms(n) == {p \in [1..n -> 1..n] : \A i, j \in 1..n : p[i] = p[j] => i = j}
Reorderings(list) == {[i \in DOMAIN list |-> list[p[i]]] : p \in Perms(Len(list))}

\* The local files with the same content in another internal order: the
\* products, the prices nested under a product, the tax groups, the taxes of
\* a group or the coupons listed in a different order.
ReorderedFiles(f) ==
  {[f EXCEPT !.products = l] : l \in Reorderings(f.products)}
  \cup UNION {{[f EXCEPT !.products[i] = Spread(@, [prices |-> l])] :
                 l \in Reorderings(f.products[i].prices)} : i \in DOMAIN f.products}
  \cup {[f EXCEPT !.taxes.countries = l] : l \in Reorderings(f.taxes.countries)}
  \cup UNION {{[f EXCEPT !.taxes.countries[i].val = l] :
                 l \in Reorderings(f.taxes.countries[i].val)} :
              i \in DOMAIN f.taxes.countries}
  \cup {[f EXCEPT !.taxes.states = l] : l \in Reorderings(f.taxes.states)}
  \cup {[f EXCEPT !.coupons = l] : l \in Reorderings(f.coupons)}

\* C22: the same local entities written in the files in another internal
\* order give, against the same remote catalog, an identical difference
\* object: the same entities in the same lists in the same order.
C22_DiffDeterminism ==
  pc = "diffed" =>
    \A f \in ReorderedFiles(files) :
      CalculateDifferences(GetLocalConfig(f), remoteConfig) = differences

\* The records of a kind the provider holds that getRemoteConfig is to
\* return: the active ones, and every coupon.
Listed(kind) ==
  IF kind = "coupons" THEN stripe.coupons
  ELSE SelectSeq(stripe[kind], LAMBDA r: Get(r, "active") = JTRUE)

FetchesOf(kind) == SelectSeq(fetches, LAMBDA c: c.kind = kind)

\* C24: in a completed fetch, the first list call of each kind carries no
\* cursor and every later one carries the id of the last record of the page
\* before it; every response but the last reports more pages and the last
\* reports none, so the loop has stopped at the first response without more
\* pages; no cursor is requested twice; and the pages, concatenated in the
\* order of the requests, are the records the provider holds, each once.
C24_Pagination ==
  pc = "fetched" =>
    \A kind \in Kinds :
      LET pages == FetchesOf(kind)
      IN  /\ pages # <<>>
          /\ pages[1].starting_after = UNDEF
          /\ \A i \in 2..Len(pages) :
               /\ pages[i - 1].data # <<>>
               /\ pages[i].starting_after = Last(pages[i - 1].data).id
          /\ \A i \in DOMAIN pages : pages[i].has_more = (i < Len(pages))
          /\ \A i, j \in DOMAIN pages :
               pages[i].starting_after = pages[j].starting_after => i = j
          /\ FlatMap(LAMBDA c: c.data, pages) = stripe[kind]

\* A completed fetch that took two list calls for the coupons, the second
\* with the cursor of a full first page, and one call for each empty kind.
C24_Witness ==
  /\ pc = "fetched"
  /\ Len(FetchesOf("coupons")) = 2
  /\ FetchesOf("coupons")[2].starting_after = stripe.coupons[PageSize].id
  /\ Len(FetchesOf("products")) = 1
  /\ Len(stripe.coupons) > PageSize

\* A list is in ascending order of id.
SortedById(list) ==
  \A i, j \in DOMAIN list :
    i < j => IdRank(Get(list[i], "id")) <= IdRank(Get(list[j], "id"))

\* C25: whatever the local files hold, the flat prices, the flat taxes and
\* the coupons that getLocalConfig returned are each sorted by id.
C25_SortedLocal ==
  (pc # "start" /\ ~localConfig.threw) =>
    /\ SortedById(localConfig.prices)
    /\ SortedById(localConfig.taxes)
    /\ SortedById(localConfig.coupons)

\* A jurisdiction label that is a bare country or has the form
\* 'STATE, COUNTRY'.
IsLabel(jurisdiction) ==
  /\ jurisdiction \notin {JNULL, JUNDEF}
  /\ Len(SplitComma(jurisdiction)) \in {1, 2}

\* The taxes getLocalConfig returns after writeLocalConfig wrote a catalog
\* that holds the one tax given.
TaxRoundTrip(tax) ==
  GetLocalConfig(WriteLocalConfig([EmptyConfig EXCEPT !.taxes = <<tax>>], files).files).taxes

\* C26: a tax rate of the fetched catalog whose jurisdiction is a bare
\* country or 'STATE, COUNTRY', written by writeLocalConfig and read back by
\* getLocalConfig, comes back as the identical flat entity: the same
\* jurisdiction label and the same other fields.
C26_JurisdictionRoundTrip ==
  pc = "fetched" =>
    \A i \in DOMAIN remoteConfig.taxes :
      IsLabel(remoteConfig.taxes[i].jurisdiction) =>
        TaxRoundTrip(remoteConfig.taxes[i]) = <<remoteConfig.taxes[i]>>

\* getLocalConfig run on the files writeLocalConfig leaves for the fetched
\* catalog.
Reloaded == GetLocalConfig(WriteLocalConfig(remoteConfig, files).files)

\* C27: for every catalog getRemoteConfig returned, products without an
\* active price and prices of a product that is not listed included,
\* writeLocalConfig followed by getLocalConfig succeeds and returns the same
\* products, prices, taxes and coupons, so that calculateDifferences of the
\* reloaded catalog against the fetched one is empty.
C27_SaveInvertsLoad ==
  pc = "fetched" =>
    /\ ~WriteLocalConfig(remoteConfig, files).threw
    /\ ~Reloaded.threw
    /\ \A kind \in Kinds : IdsOf(Reloaded[kind]) = IdsOf(remoteConfig[kind])
    /\ CalculateDifferences(Reloaded, remoteConfig) = NoDifferences

\* The i-th call of the log is the update call of the entity e of the
\* `updated` list of a kind.
UpdatesEntity(i, kind, e) ==
  /\ calls[i].kind = kind /\ calls[i].op = "update" /\ ~IsDeactivation(calls[i])
  /\ calls[i].id = e.id

\* C28: the update call of every entity of an `updated` list carries, for
\* every key of the mutable schema of its kind whose local value differs from
\* the fetched one, that key with the local value.
C28_UpdatesTransmitted ==
  \A kind \in Kinds :
    \A e \in Range(differences[kind].updated) :
      \A i \in DOMAIN calls :
        UpdatesEntity(i, kind, e) =>
          \A k \in DOMAIN e \cap ALLOWED_UPDATE_KEYS[EntryName[kind]] :
            e[k] # Get(Counterpart(e, kind), k) =>
              /\ k \in PayloadKeys(calls[i])
              /\ calls[i].params[k] = e[k]

\* C29: when applyChanges has run to its end and the provider has rejected
\* no call, the number of create, update and del calls it issued, the price
\* creates of the new products included, is countDifferences of the change
\* set.
C29_CallCount ==
  (ApplyCompleted /\ rejected = <<>>) => Len(calls) = CountDifferences(differences)

\* applyChanges has completed without a rejected call after creating a
\* product with a nested price, and the files were saved.
C29_Witness ==
  /\ pc = "synced" /\ rejected = <<>>
  /\ \E i \in DOMAIN calls : IsNestedCreate(i)
  /\ Len(calls) >= 2

=============================================================================
